---------------------------- MODULE Spec2Model ----------------------------
(***************************************************************************)
(* Model of conallob/omnifocus-scripts: two revisions of the Slack ->      *)
(* OmniFocus importer.                                                     *)
(*                                                                         *)
(*   src/slack-integration/slack_to_omnifocus.py   ("the integration")     *)
(*   src/slack_to_omnifocus.py                     ("the root script")     *)
(*                                                                         *)
(* The module holds nine state machines over one set of variables; each    *)
(* specification moves its own variables and leaves the others at rest:    *)
(*                                                                         *)
(*   SpecEscape  the escapers and the AppleScript the two revisions render *)
(*   SpecRetry   SlackToOmniFocus._api_call_with_retry                     *)
(*   SpecSync    SlackToOmniFocus.sync of the integration, run after run   *)
(*   SpecRoot    main() of the root script                                 *)
(*   SpecFetch   SlackToOmniFocus.fetch_saved_items of the integration     *)
(*   SpecMain    main() of the integration: the dry-run listing or sync    *)
(*   SpecText    format_task and the root script's _create_title, on texts *)
(*               long enough to be cut                                     *)
(*   SpecEscapeCall  the escaper called directly, also with None           *)
(*   SpecRun     fetch_saved_items followed by the import loop of sync     *)
(***************************************************************************)
EXTENDS Integers, Sequences, FiniteSets, TLC

VARIABLES
    \* ---- SpecEscape
    title,              \* task_name handed to add_to_omnifocus
    note,               \* note handed to add_to_omnifocus
    script,             \* the AppleScript text given to osascript -e
    esc_pc,             \* "input" | "integration" | "root"
    \* ---- SpecRetry
    max_retries,        \* self.max_retries (options.max_api_retries)
    kwargs,             \* the keyword arguments of the wrapped call
    attempt,            \* loop variable of `for attempt in range(max_retries)`
    api_calls,          \* kwargs of every api_func invocation, in order
    sleeps,             \* argument of every time.sleep, in order
    outcomes,           \* what every api_func invocation did, in order
    retry_pc,           \* "loop" | "returned" | "raised" | "exceeded" | "value_error"
    retry_result,       \* the response returned or the error kind raised
    \* ---- SpecSync
    slack_stars,        \* the starred items Slack holds, in stars.list order
                        \* (SpecRoot's Slack too)
    imported_items,     \* the persisted ledger of already imported keys
    remove_after_import,\* argument of sync
    later_run,          \* FALSE in the first run, TRUE in a later one
    created_before,     \* keys whose task an earlier run created
    saved_items,        \* what fetch_saved_items returned to sync
    sync_i,             \* 1-based position of the loop over saved_items
    osascript_calls,    \* [key, ok] of every osascript launch of this run
    stars_remove_calls, \* key of every stars_remove call of this run
    success_count,
    fail_count,
    sync_pc,            \* "idle" | "importing" | "done" | "crashed"
    \* ---- SpecRoot
    root_items,         \* saved_items of main(): what get_saved_messages returned
    args_remove,        \* --remove
    args_dry_run,       \* --dry-run
    root_i,             \* 1-based position of the current loop
    root_added,         \* positions whose osascript call succeeded
    added_count,
    root_remove_calls,  \* [pos, file] of every stars_remove call
    removed_count,
    root_pc,            \* "start" | "adding" | "removing" | "done" | "crashed"
    \* ---- SpecFetch
    batch_fetch,        \* self.batch_fetch (options.batch_fetch_users_channels)
    fetch_pc,           \* "paging" | "batch_users" | "batch_channels" |
                        \* "processing" | "returned" | "crashed"
    cursor,             \* the local cursor of fetch_saved_items
    stars_list_calls,   \* cursor argument of every stars_list request, in order
    pages,              \* the responses stars_list gave, in order
    raw_items,          \* the local raw_items
    user_ids,           \* ids the batch pass over users has still to visit
    channel_ids,        \* ids the batch pass over channels has still to visit
    user_cache,         \* self.user_cache: id -> name
    channel_cache,      \* self.channel_cache: id -> name
    users_info_calls,   \* [id, ok, phase] of every users_info lookup
    conversations_info_calls, \* [id, ok, phase] of every conversations_info lookup
    proc_i,             \* 1-based position of the processing loop
    fetch_out,          \* the local saved_items, and what the call returns
    fetch_error,        \* "none" | "SlackApiError" | "ValueError"
    \* ---- SpecMain
    dry_run,            \* args.dry_run of the integration's main()
    main_pc,            \* "start" | "listing" | "in_sync" | "exit0" | "exit1"
    dry_formatted,      \* ids of the items the dry-run listing has formatted
    \* ---- SpecText
    item_text,          \* item['text'] handed to the formatters
    item_type,          \* item['type']
    permalink,          \* item.get('permalink')
    task_name,          \* first component of what format_task returns
    task_note,          \* second component of what format_task returns
    root_title,         \* what the root script's _create_title returns
    escaped,            \* what a direct call of the escaper returns
    text_pc             \* "input" | "formatted" | "format_raised" | "titled" |
                        \* "title_raised" | "escaped" | "escape_raised"

escVars   == <<title, note, script, esc_pc>>
retryVars == <<max_retries, kwargs, attempt, api_calls, sleeps, outcomes,
               retry_pc, retry_result>>
syncVars  == <<slack_stars, imported_items, remove_after_import,
               later_run, created_before, saved_items, sync_i, osascript_calls,
               stars_remove_calls, success_count, fail_count, sync_pc>>
rootVars  == <<root_items, args_remove, args_dry_run, root_i, root_added,
               added_count, root_remove_calls, removed_count, root_pc>>
fetchVars == <<batch_fetch, fetch_pc, cursor, stars_list_calls, pages, raw_items,
               user_ids, channel_ids, user_cache, channel_cache, users_info_calls,
               conversations_info_calls, proc_i, fetch_out, fetch_error>>
mainVars  == <<dry_run, main_pc, dry_formatted>>
textVars  == <<item_text, item_type, permalink, task_name, task_note, root_title,
               escaped, text_pc>>
vars      == <<escVars, retryVars, syncVars, rootVars, fetchVars, mainVars, textVars>>

(***************************************************************************)
(* Bounds of the model.                                                    *)
(***************************************************************************)
MaxLen == 3             \* Len(title) + Len(note) of the escaped texts
MaxApiRetries == 3      \* largest configured max_api_retries explored
MaxItems == 2           \* most starred items Slack holds

(***************************************************************************)
(* Text.  A string is a sequence of characters; the characters the         *)
(* escapers treat specially are named, "a" and "n" stand for plain text.   *)
(***************************************************************************)
BS  == "backslash"
DQ  == "quote"
LF  == "linefeed"
CR  == "return"
TAB == "tab"
BT  == "backtick"
DL  == "dollar"

Chars == {BS, DQ, LF, CR, TAB, BT, DL, "a"}

Str(n) == UNION {[1..k -> Chars] : k \in 0..n}

\* str.replace(old, new) for a one-character old: every occurrence, left to
\* right, is replaced by the sequence new.
RECURSIVE Replace(_, _, _)
Replace(s, old, new) ==
    IF s = <<>> THEN <<>>
    ELSE (IF Head(s) = old THEN new ELSE <<Head(s)>>) \o Replace(Tail(s), old, new)

\* A plausible slip of the integration's escaper: the quote replaced before
\* the backslash, so the backslash it inserts is doubled afterwards.
Mutant_escape_applescript_string(s) ==
    LET s1 == Replace(s,  DQ,  <<BS, DQ>>)
        s2 == Replace(s1, BS,  <<BS, BS>>)
        s3 == Replace(s2, LF,  <<BS, "n">>)
        s4 == Replace(s3, CR,  <<BS, "r">>)
        s5 == Replace(s4, TAB, <<BS, "t">>)
        s6 == Replace(s5, BT,  <<BS, BT>>)
    IN  Replace(s6, DL, <<BS, DL>>)

\* Another slip: the two replaces of the line breaks left out.
Mutant_escape_keeps_line_breaks(s) ==
    LET s1 == Replace(s,  BS,  <<BS, BS>>)
        s2 == Replace(s1, DQ,  <<BS, DQ>>)
        s5 == Replace(s2, TAB, <<BS, "t">>)
        s6 == Replace(s5, BT,  <<BS, BT>>)
    IN  Replace(s6, DL, <<BS, DL>>)

\* SlackToOmniFocus._escape_applescript_string (integration): seven replaces
\* applied one after the other, the backslash first.
_escape_applescript_string(s) ==
    LET s1 == Replace(s,  BS,  <<BS, BS>>)
        s2 == Replace(s1, DQ,  <<BS, DQ>>)
        s3 == Replace(s2, LF,  <<BS, "n">>)
        s4 == Replace(s3, CR,  <<BS, "r">>)
        s5 == Replace(s4, TAB, <<BS, "t">>)
        s6 == Replace(s5, BT,  <<BS, BT>>)
    IN  Replace(s6, DL, <<BS, DL>>)

\* SlackToOmniFocus._escape_quotes (root script):
\*     text.replace('"', '\\"').replace('\\', '\\\\')
\* the quote first, the backslash second.
_escape_quotes(text) ==
    Replace(Replace(text, DQ, <<BS, DQ>>), BS, <<BS, BS>>)

\* The f-string of add_to_omnifocus (integration), escaped texts embedded.
\* A run of template text without a quote is one element of the sequence.
IntegrationScript(t, n) ==
    <<"tell application ", DQ, "OmniFocus", DQ,
      " tell default document make new inbox task with properties {name:", DQ>>
    \o _escape_applescript_string(t)
    \o <<DQ, ", note:", DQ>>
    \o _escape_applescript_string(n)
    \o <<DQ, "} end tell end tell">>

\* The f-string of add_to_omnifocus (root script).
RootScript(t, n) ==
    <<"tell application ", DQ, "OmniFocus", DQ,
      " tell default document set newTask to make new inbox task with properties {name:", DQ>>
    \o _escape_quotes(t)
    \o <<DQ, "} set note of newTask to ", DQ>>
    \o _escape_quotes(n)
    \o <<DQ, " end tell end tell">>

(***************************************************************************)
(* How the AppleScript interpreter reads a script: outside a literal a     *)
(* quote opens one; inside, a backslash takes the next character with it   *)
(* and a quote closes the literal.                                         *)
(***************************************************************************)
RECURSIVE Lex(_, _, _, _, _)
Lex(s, inStr, cur, lits, code) ==
    IF s = <<>> THEN [lits |-> lits, code |-> code, open |-> inStr]
    ELSE IF ~inStr
         THEN IF Head(s) = DQ
              THEN Lex(Tail(s), TRUE, <<>>, lits, code)
              ELSE Lex(Tail(s), FALSE, cur, lits, Append(code, Head(s)))
    ELSE IF Head(s) = BS
         THEN IF Len(s) >= 2
              THEN Lex(Tail(Tail(s)), TRUE, cur \o <<BS, s[2]>>, lits, code)
              ELSE Lex(<<>>, TRUE, Append(cur, BS), lits, code)
    ELSE IF Head(s) = DQ
         THEN Lex(Tail(s), FALSE, <<>>, Append(lits, cur), code)
    ELSE Lex(Tail(s), TRUE, Append(cur, Head(s)), lits, code)

Read(s) == Lex(s, FALSE, <<>>, <<>>, <<>>)

\* The number of consecutive backslashes that end s[1..i].
RECURSIVE BackslashesBefore(_, _)
BackslashesBefore(s, i) ==
    IF i = 0 \/ s[i] # BS THEN 0 ELSE 1 + BackslashesBefore(s, i - 1)

\* Every quote of s is preceded by an odd number of backslashes.
QuotesEscaped(s) ==
    \A i \in 1..Len(s) : s[i] = DQ => BackslashesBefore(s, i - 1) % 2 = 1

(***************************************************************************)
(* Each machine at rest, for the specifications that do not move it.       *)
(***************************************************************************)
EscIdle ==
    /\ title = <<>> /\ note = <<>> /\ script = <<>> /\ esc_pc = "idle"

RetryIdle ==
    /\ max_retries = 0 /\ kwargs = "none" /\ attempt = 0
    /\ api_calls = <<>> /\ sleeps = <<>> /\ outcomes = <<>>
    /\ retry_pc = "idle" /\ retry_result = "none"

SyncIdle ==
    /\ slack_stars = <<>> /\ imported_items = {} /\ remove_after_import = FALSE
    /\ later_run = FALSE /\ created_before = {} /\ saved_items = <<>>
    /\ sync_i = 0 /\ osascript_calls = <<>> /\ stars_remove_calls = <<>>
    /\ success_count = 0 /\ fail_count = 0 /\ sync_pc = "off"

RootIdle ==
    /\ root_items = <<>> /\ args_remove = FALSE /\ args_dry_run = FALSE
    /\ root_i = 0 /\ root_added = {} /\ added_count = 0
    /\ root_remove_calls = <<>> /\ removed_count = 0 /\ root_pc = "off"

NoCache == [x \in {} |-> <<>>]

FetchIdle ==
    /\ batch_fetch = FALSE /\ fetch_pc = "off" /\ cursor = "None"
    /\ stars_list_calls = <<>> /\ pages = <<>> /\ raw_items = <<>>
    /\ user_ids = {} /\ channel_ids = {}
    /\ user_cache = NoCache /\ channel_cache = NoCache
    /\ users_info_calls = <<>> /\ conversations_info_calls = <<>>
    /\ proc_i = 0 /\ fetch_out = <<>> /\ fetch_error = "none"

MainIdle ==
    /\ dry_run = FALSE /\ main_pc = "off" /\ dry_formatted = <<>>

TextIdle ==
    /\ item_text = <<>> /\ item_type = "none" /\ permalink = <<>>
    /\ task_name = <<>> /\ task_note = <<>> /\ root_title = <<>>
    /\ escaped = <<>> /\ text_pc = "off"

(***************************************************************************)
(* SpecEscape: a title and a note, and the script each revision renders    *)
(* from them.                                                              *)
(***************************************************************************)
InitEscape ==
    /\ title \in Str(MaxLen)
    /\ note \in Str(MaxLen - Len(title))
    /\ script = <<>>
    /\ esc_pc = "input"
    /\ RetryIdle /\ SyncIdle /\ RootIdle /\ FetchIdle /\ MainIdle /\ TextIdle

\* add_to_omnifocus of the integration, up to the launch of osascript.
RenderIntegration ==
    /\ esc_pc = "input"
    /\ script' = IntegrationScript(title, note)
    /\ esc_pc' = "integration"
    /\ UNCHANGED <<title, note, retryVars, syncVars, rootVars, fetchVars, mainVars, textVars>>

\* add_to_omnifocus of the root script, up to the launch of osascript.
RenderRoot ==
    /\ esc_pc = "input"
    /\ script' = RootScript(title, note)
    /\ esc_pc' = "root"
    /\ UNCHANGED <<title, note, retryVars, syncVars, rootVars, fetchVars, mainVars, textVars>>

NextEscape == RenderIntegration \/ RenderRoot

SpecEscape == InitEscape /\ [][NextEscape]_vars

\* What the interpreter must read in the integration's script: the literal of
\* the application name, then the two escaped texts, and the template's code.
IntegrationCode ==
    <<"tell application ",
      " tell default document make new inbox task with properties {name:",
      ", note:", "} end tell end tell">>

RootCode ==
    <<"tell application ",
      " tell default document set newTask to make new inbox task with properties {name:",
      "} set note of newTask to ", " end tell end tell">>

C2_RootQuotesEscaped ==
    esc_pc = "root" =>
        /\ QuotesEscaped(_escape_quotes(title))
        /\ QuotesEscaped(_escape_quotes(note))
        /\ Read(script).open = FALSE
        /\ Read(script).code = RootCode

(***************************************************************************)
(* SpecRetry: _api_call_with_retry around one api_func.  What api_func     *)
(* does at each invocation is the environment's choice.                    *)
(***************************************************************************)
DefaultRetryAfter == 60

\* The Retry-After header of a rate-limit response: a number in text, no
\* header at all, or text that is no number.
Headers ==
    {[kind |-> "int", value |-> 1], [kind |-> "int", value |-> 5],
     [kind |-> "absent", value |-> 0], [kind |-> "malformed", value |-> 0]}

NoHeader == [kind |-> "absent", value |-> 0]

Responses == {"r1", "r2"}

\* A response api_func returns.
Successes == {[kind |-> "ok", header |-> NoHeader, resp |-> r] : r \in Responses}

\* A SlackApiError api_func raises: rate limited (with its header), another
\* error kind, or an error whose response is empty (kind "").
Failures ==
    {[kind |-> "rate_limited", header |-> h, resp |-> "none"] : h \in Headers}
    \cup {[kind |-> k, header |-> NoHeader, resp |-> "none"] : k \in {"invalid_auth", ""}}

\* error_code = e.response.get('error', '') if e.response else ''
error_code(e) == e.kind

\* A slip that would retry every SlackApiError.
Mutant_IsRateLimited(e) == TRUE

\* if error_code == 'rate_limited'
IsRateLimited(e) == error_code(e) = "rate_limited"

\* int() of the header value raises ValueError on text that is no number.
HeaderParses(e) == e.header.kind # "malformed"

\* A slip that would ignore the header and always wait the default.
Mutant_retry_after(e) == DefaultRetryAfter

\* retry_after = int(e.response.headers.get('Retry-After', 60))
retry_after(e) ==
    IF e.header.kind = "int" THEN e.header.value ELSE DefaultRetryAfter

\* A slip that would make one attempt more than range(max_retries).
Mutant_LoopContinues == attempt < max_retries + 1

\* for attempt in range(self.max_retries): the loop body runs once more.
LoopContinues == attempt < max_retries

InitRetry ==
    /\ max_retries \in 0..MaxApiRetries
    /\ kwargs \in {"U1", "U2"}
    /\ attempt = 0
    /\ api_calls = <<>> /\ sleeps = <<>> /\ outcomes = <<>>
    /\ retry_pc = "loop" /\ retry_result = "none"
    /\ EscIdle /\ SyncIdle /\ RootIdle /\ FetchIdle /\ MainIdle /\ TextIdle

\* return api_func(**kwargs)
ApiReturns ==
    /\ retry_pc = "loop" /\ LoopContinues
    /\ \E r \in Successes :
        /\ api_calls' = Append(api_calls, kwargs)
        /\ outcomes' = Append(outcomes, r)
        /\ retry_result' = r
    /\ retry_pc' = "returned"
    /\ UNCHANGED <<max_retries, kwargs, attempt, sleeps, escVars, syncVars, rootVars, fetchVars, mainVars, textVars>>

\* api_func raises, the error is a rate limit: sleep for Retry-After and go
\* round the loop; int() of a malformed header raises ValueError instead.
ApiRateLimited ==
    /\ retry_pc = "loop" /\ LoopContinues
    /\ \E e \in Failures :
        /\ IsRateLimited(e)
        /\ api_calls' = Append(api_calls, kwargs)
        /\ outcomes' = Append(outcomes, e)
        /\ IF HeaderParses(e)
           THEN /\ sleeps' = Append(sleeps, retry_after(e))
                /\ attempt' = attempt + 1
                /\ UNCHANGED <<retry_pc, retry_result>>
           ELSE /\ retry_pc' = "value_error"
                /\ retry_result' = "ValueError"
                /\ UNCHANGED <<sleeps, attempt>>
    /\ UNCHANGED <<max_retries, kwargs, escVars, syncVars, rootVars, fetchVars, mainVars, textVars>>

\* api_func raises another SlackApiError: raise (the same exception).
ApiOtherError ==
    /\ retry_pc = "loop" /\ LoopContinues
    /\ \E e \in Failures :
        /\ ~IsRateLimited(e)
        /\ api_calls' = Append(api_calls, kwargs)
        /\ outcomes' = Append(outcomes, e)
        /\ retry_result' = e
    /\ retry_pc' = "raised"
    /\ UNCHANGED <<max_retries, kwargs, attempt, sleeps, escVars, syncVars, rootVars, fetchVars, mainVars, textVars>>

\* The loop is over: raise SlackApiError("Rate limit exceeded").
RetriesExhausted ==
    /\ retry_pc = "loop" /\ ~LoopContinues
    /\ retry_pc' = "exceeded"
    /\ retry_result' = "Rate limit exceeded"
    /\ UNCHANGED <<max_retries, kwargs, attempt, api_calls, sleeps, outcomes,
                   escVars, syncVars, rootVars, fetchVars, mainVars, textVars>>

NextRetry == ApiReturns \/ ApiRateLimited \/ ApiOtherError \/ RetriesExhausted

SpecRetry == InitRetry /\ [][NextRetry]_vars

\* The call runs on: a sleep ends and api_func answers.
SpecRetryFair == SpecRetry /\ WF_vars(NextRetry)

AllRateLimited == \A i \in 1..Len(outcomes) : outcomes[i].kind = "rate_limited"

C9_OneInitialPlusRetries ==
    (retry_pc = "exceeded" /\ max_retries >= 1) => Len(api_calls) = max_retries + 1

StarItems ==
    {[id |-> "m1", type |-> "message", channel |-> "C123", ts |-> "1111", url |-> ""],
     [id |-> "m2", type |-> "message", channel |-> "C123", ts |-> "2222", url |-> ""],
     [id |-> "F1", type |-> "file", channel |-> "", ts |-> "", url |-> "https://files/F1"],
     [id |-> "fc1", type |-> "file_comment", channel |-> "", ts |-> "3333", url |-> ""],
     [id |-> "c1", type |-> "channel", channel |-> "C9", ts |-> "", url |-> ""]}

\* Sequences of distinct starred items, at most n of them.
StarLists(n) ==
    {q \in UNION {[1..k -> StarItems] : k \in 0..n} :
        \A i, j \in 1..Len(q) : i # j => q[i] # q[j]}

\* The dedup key of an item: {channel_id}/{timestamp} for a message, the URL
\* for a file.
_get_item_key(item) ==
    IF item.type = "message" THEN <<item.channel, "/", item.ts>> ELSE <<item.url>>

AllKeys == {_get_item_key(it) : it \in {x \in StarItems : x.type \in {"message", "file"}}}

RECURSIVE SelectSeq2(_, _)
SelectSeq2(q, S) ==
    IF q = <<>> THEN <<>>
    ELSE (IF Head(q) \in S THEN <<Head(q)>> ELSE <<>>) \o SelectSeq2(Tail(q), S)

\* The processing loop of fetch_saved_items: a message or a file becomes a
\* saved item, in order; an item of another type is passed over.
Processed(raw) == SelectSeq2(raw, {x \in StarItems : x.type \in {"message", "file"}})

\* What one osascript launch can do: exit 0, exit non-zero
\* (CalledProcessError), or not start at all (FileNotFoundError).
AddOutcomes == {"ok", "nonzero", "launch_failure"}

\* A slip that would remove whenever the flag is set, added or not.
Mutant_ShouldRemove(added) == remove_after_import

\* if self.add_to_omnifocus(...): ... if remove_after_import:
ShouldRemove(added) == added /\ remove_after_import

InitSync ==
    /\ slack_stars \in StarLists(MaxItems)
    /\ imported_items \in SUBSET AllKeys
    /\ remove_after_import \in BOOLEAN
    /\ later_run = FALSE /\ created_before = {}
    /\ saved_items = <<>> /\ sync_i = 0
    /\ osascript_calls = <<>> /\ stars_remove_calls = <<>>
    /\ success_count = 0 /\ fail_count = 0
    /\ sync_pc = "idle"
    /\ EscIdle /\ RetryIdle /\ RootIdle /\ FetchIdle /\ MainIdle /\ TextIdle

\* saved_items = self.fetch_saved_items(); if not saved_items: return
\* fetch_saved_items answers [] when a Slack call of it failed.
FetchSavedItems ==
    /\ sync_pc = "idle"
    /\ \E fetched \in BOOLEAN :
        saved_items' = IF fetched THEN Processed(slack_stars) ELSE <<>>
    /\ sync_i' = 1
    /\ sync_pc' = IF saved_items' = <<>> THEN "done" ELSE "importing"
    /\ UNCHANGED <<slack_stars, imported_items, remove_after_import, later_run,
                   created_before, osascript_calls, stars_remove_calls,
                   success_count, fail_count, escVars, retryVars, rootVars, fetchVars, mainVars, textVars>>

\* One round of `for i, item in enumerate(saved_items, 1)`: format_task,
\* add_to_omnifocus and, after a success with remove_after_import,
\* remove_saved_item.
ImportItem ==
    /\ sync_pc = "importing" /\ sync_i <= Len(saved_items)
    /\ LET item == saved_items[sync_i] IN
       \E add \in AddOutcomes, removed \in BOOLEAN :
        /\ osascript_calls' =
               Append(osascript_calls, [key |-> _get_item_key(item), ok |-> add = "ok"])
        /\ IF add = "launch_failure"
           THEN /\ sync_pc' = "crashed"
                /\ removed = FALSE
                /\ UNCHANGED <<sync_i, success_count, fail_count,
                               stars_remove_calls, slack_stars>>
           ELSE /\ sync_pc' = sync_pc
                /\ sync_i' = sync_i + 1
                /\ success_count' = IF add = "ok" THEN success_count + 1 ELSE success_count
                /\ fail_count' = IF add = "ok" THEN fail_count ELSE fail_count + 1
                /\ IF ShouldRemove(add = "ok")
                   THEN /\ stars_remove_calls' =
                               Append(stars_remove_calls, _get_item_key(item))
                        /\ slack_stars' =
                               IF removed THEN SelectSeq2(slack_stars, StarItems \ {item})
                               ELSE slack_stars
                   ELSE /\ removed = FALSE
                        /\ UNCHANGED <<stars_remove_calls, slack_stars>>
    /\ UNCHANGED <<imported_items, remove_after_import, later_run, created_before,
                   saved_items, escVars, retryVars, rootVars, fetchVars, mainVars, textVars>>

\* The loop is over: the summary is logged and sync returns.
SyncReturns ==
    /\ sync_pc = "importing" /\ sync_i > Len(saved_items)
    /\ sync_pc' = "done"
    /\ UNCHANGED <<slack_stars, imported_items, remove_after_import, later_run,
                   created_before, saved_items, sync_i, osascript_calls,
                   stars_remove_calls, success_count, fail_count,
                   escVars, retryVars, rootVars, fetchVars, mainVars, textVars>>

\* The script is started again: a fresh SlackToOmniFocus instance, the same
\* Slack workspace and the same files on disk.
LaterRun ==
    /\ sync_pc \in {"done", "crashed"} /\ ~later_run
    /\ later_run' = TRUE
    /\ created_before' = {osascript_calls[j].key :
                            j \in {n \in 1..Len(osascript_calls) : osascript_calls[n].ok}}
    /\ remove_after_import' \in BOOLEAN
    /\ saved_items' = <<>> /\ sync_i' = 0
    /\ osascript_calls' = <<>> /\ stars_remove_calls' = <<>>
    /\ success_count' = 0 /\ fail_count' = 0
    /\ sync_pc' = "idle"
    /\ UNCHANGED <<slack_stars, imported_items, escVars, retryVars, rootVars, fetchVars, mainVars, textVars>>

NextSync == FetchSavedItems \/ ImportItem \/ SyncReturns \/ LaterRun

SpecSync == InitSync /\ [][NextSync]_vars

\* C3: in a normal sync an item whose key is in the set of imported keys gets
\* no task-creation call: osascript is launched once for every harvested item
\* whose key is not in the ledger, and for no other.
C3_ImportedItemsSkipped ==
    /\ \A j \in 1..Len(osascript_calls) : osascript_calls[j].key \notin imported_items
    /\ sync_pc = "done" =>
          Len(osascript_calls) =
              Cardinality({i \in 1..Len(saved_items) :
                              _get_item_key(saved_items[i]) \notin imported_items})

\* C4: an item whose task a run created is recorded in the persisted ledger,
\* so a later run of a fresh instance against the same saved items launches
\* no osascript for it (no second task).
C4_NoSecondTask ==
    later_run =>
        \A j \in 1..Len(osascript_calls) : osascript_calls[j].key \notin created_before

\* C6: remove_saved_item (stars_remove) is called for an item only with
\* remove_after_import set and after add_to_omnifocus returned True for that
\* item, at most once per item; without the flag it is never called.
C6_RemoveOnlyAfterAdd ==
    /\ \A r \in 1..Len(stars_remove_calls) :
          /\ remove_after_import
          /\ \E j \in 1..Len(osascript_calls) :
                osascript_calls[j].key = stars_remove_calls[r] /\ osascript_calls[j].ok
          /\ \A r2 \in 1..Len(stars_remove_calls) :
                stars_remove_calls[r2] = stars_remove_calls[r] => r2 = r
    /\ ~remove_after_import => stars_remove_calls = <<>>

\* C6 witness: with the flag set, one item failed to be added, another was
\* added and removed.
C6_Witness ==
    /\ remove_after_import /\ sync_pc = "done"
    /\ fail_count = 1 /\ success_count = 1 /\ Len(stars_remove_calls) = 1

(***************************************************************************)
(* SpecRoot: main() of the root script.                                    *)
(***************************************************************************)
\* _parse_saved_item: the dict kept of a message, a file or a file comment
\* (text stands for the item's content); it keeps no file id.
_parse_saved_item(raw) ==
    [type |-> raw.type, text |-> raw.id, channel |-> raw.channel,
     timestamp |-> raw.ts, url |-> raw.url]

\* get_saved_messages: the parsed items, those of another type left out.
get_saved_messages(raw) ==
    LET kept == SelectSeq2(raw, {x \in StarItems :
                                   x.type \in {"message", "file", "file_comment"}})
    IN  [i \in 1..Len(kept) |-> _parse_saved_item(kept[i])]

\* for item in saved_items[:added_count]
RemovalCandidates == SubSeq(root_items, 1, added_count)

\* remove_saved_item calls stars_remove for a message and for a file, and
\* answers False at once for anything else.
CallsStarsRemove(item) == item.type \in {"message", "file"}

\* The arguments of that stars_remove call; item.get("file_id") is None, the
\* parsed item having no such entry.
StarsRemoveArgs(item) ==
    IF item.type = "message"
    THEN [channel |-> item.channel, timestamp |-> item.timestamp, file |-> "-"]
    ELSE [channel |-> "-", timestamp |-> "-", file |-> "None"]

InitRoot ==
    /\ root_items = <<>>
    /\ slack_stars \in StarLists(MaxItems)
    /\ args_remove \in BOOLEAN /\ args_dry_run \in BOOLEAN
    /\ root_i = 0 /\ root_added = {} /\ added_count = 0
    /\ root_remove_calls = <<>> /\ removed_count = 0
    /\ root_pc = "start"
    /\ imported_items = {} /\ remove_after_import = FALSE
    /\ later_run = FALSE /\ created_before = {} /\ saved_items = <<>>
    /\ sync_i = 0 /\ osascript_calls = <<>> /\ stars_remove_calls = <<>>
    /\ success_count = 0 /\ fail_count = 0 /\ sync_pc = "off"
    /\ EscIdle /\ RetryIdle /\ FetchIdle /\ MainIdle /\ TextIdle

\* main() up to the loops: fetch, `if not saved_items: return`, and the
\* dry-run listing.  get_saved_messages answers [] when stars_list failed.
RootFetch ==
    /\ root_pc = "start"
    /\ \E fetched \in BOOLEAN :
        root_items' = IF fetched THEN get_saved_messages(slack_stars) ELSE <<>>
    /\ root_i' = 1
    /\ root_pc' = IF root_items' = <<>> \/ args_dry_run THEN "done" ELSE "adding"
    /\ UNCHANGED <<args_remove, args_dry_run, root_added, added_count,
                   root_remove_calls, removed_count,
                   escVars, retryVars, syncVars, fetchVars, mainVars, textVars>>

\* One round of the loop of add_to_omnifocus(items): osascript exits 0
\* (added_count += 1), exits non-zero (caught, printed) or cannot be started
\* (FileNotFoundError, caught nowhere).
RootAddItem ==
    /\ root_pc = "adding" /\ root_i <= Len(root_items)
    /\ \E add \in AddOutcomes :
        IF add = "launch_failure"
        THEN /\ root_pc' = "crashed"
             /\ UNCHANGED <<root_i, root_added, added_count>>
        ELSE /\ root_i' = root_i + 1
             /\ root_added' = IF add = "ok" THEN root_added \cup {root_i} ELSE root_added
             /\ added_count' = IF add = "ok" THEN added_count + 1 ELSE added_count
             /\ UNCHANGED root_pc
    /\ UNCHANGED <<root_items, args_remove, args_dry_run, root_remove_calls,
                   removed_count, escVars, retryVars, syncVars, fetchVars, mainVars, textVars>>

\* add_to_omnifocus returns added_count; `if args.remove and added_count > 0`.
RootAddReturns ==
    /\ root_pc = "adding" /\ root_i > Len(root_items)
    /\ root_i' = 1
    /\ root_pc' = IF args_remove /\ added_count > 0 THEN "removing" ELSE "done"
    /\ UNCHANGED <<root_items, args_remove, args_dry_run, root_added, added_count,
                   root_remove_calls, removed_count, escVars, retryVars, syncVars, fetchVars, mainVars, textVars>>

\* One round of `for item in saved_items[:added_count]`: remove_saved_item.
RootRemoveItem ==
    /\ root_pc = "removing" /\ root_i <= Len(RemovalCandidates)
    /\ LET item == RemovalCandidates[root_i] IN
       \E removed \in BOOLEAN :
        IF CallsStarsRemove(item)
        THEN /\ root_remove_calls' =
                   Append(root_remove_calls, [pos |-> root_i, args |-> StarsRemoveArgs(item)])
             /\ removed_count' = IF removed THEN removed_count + 1 ELSE removed_count
             /\ slack_stars' =
                   IF removed
                   THEN SelectSeq2(slack_stars, {x \in StarItems : x.id # item.text})
                   ELSE slack_stars
        ELSE /\ removed = FALSE
             /\ UNCHANGED <<root_remove_calls, removed_count, slack_stars>>
    /\ root_i' = root_i + 1
    /\ UNCHANGED <<root_items, args_remove, args_dry_run, root_added, added_count,
                   root_pc, escVars, retryVars, fetchVars, mainVars, textVars,
                   imported_items, remove_after_import, later_run, created_before,
                   saved_items, sync_i, osascript_calls, stars_remove_calls,
                   success_count, fail_count, sync_pc>>

\* The removal loop is over: the count is printed and main returns.
RootReturns ==
    /\ root_pc = "removing" /\ root_i > Len(RemovalCandidates)
    /\ root_pc' = "done"
    /\ UNCHANGED <<root_items, args_remove, args_dry_run, root_i, root_added,
                   added_count, root_remove_calls, removed_count,
                   escVars, retryVars, syncVars, fetchVars, mainVars, textVars>>

NextRoot == RootFetch \/ RootAddItem \/ RootAddReturns \/ RootRemoveItem \/ RootReturns

SpecRoot == InitRoot /\ [][NextRoot]_vars

\* C5: with --remove, stars_remove is called for a saved item only if the
\* osascript call that added that same item succeeded.
C5_RemovedOnlyIfAdded ==
    \A r \in 1..Len(root_remove_calls) : root_remove_calls[r].pos \in root_added

\* C11: a rate-limited failure without a Retry-After value, or with one that
\* is no valid integer, is followed by a sleep of the default 60 seconds and
\* another attempt; it never ends the call with a different error.
C11_DefaultRetryAfter ==
    /\ retry_pc # "value_error"
    /\ \A i \in 1..Len(outcomes) :
          (outcomes[i].kind = "rate_limited" /\ outcomes[i].header.kind # "int") =>
              /\ Len(sleeps) >= i
              /\ sleeps[i] = DefaultRetryAfter

(***************************************************************************)
(* SpecFetch: SlackToOmniFocus.fetch_saved_items.  Every remote request    *)
(* goes through _api_call_with_retry; one wrapped request is one step here *)
(* and ends in one of the three ways SpecRetry ends: it returns the        *)
(* response, it raises SlackApiError (another error code, or the retries   *)
(* ran out), or it raises ValueError (a Retry-After int() cannot parse).   *)
(***************************************************************************)
MaxPages == 3

MaxRaw == 2

WrappedOutcomes == {"ok", "SlackApiError", "ValueError"}

Mutant_MakesCall(retries) == TRUE

\* `for attempt in range(self.max_retries)` runs its body, and so api_func,
\* at least once only for a positive max_retries.
MakesCall(retries) == retries >= 1

\* With no turn of the loop the wrapped call goes straight to
\* raise SlackApiError("Rate limit exceeded").
WrappedEndings(retries) == IF MakesCall(retries) THEN WrappedOutcomes ELSE {"SlackApiError"}

\* The values of options.max_api_retries explored under fetch_saved_items.
FetchRetries == {-1, 0, MaxApiRetries}

Absent == "absent"

Cursors == {"c1", "c2"}

\* A response carries next_cursor "" when it has no response_metadata, no
\* next_cursor, or an empty one: `if not cursor` treats the three alike.
NextCursors == Cursors \cup {""}

\* The starred list of the workspace, in the order stars_list serves it.
RawList ==
    << [id |-> "r1", type |-> "message", user |-> "U1",   channel |-> "C1"],
       [id |-> "r2", type |-> "message", user |-> "U1",   channel |-> "C1"],
       [id |-> "r3", type |-> "message", user |-> Absent, channel |-> Absent],
       [id |-> "r4", type |-> "file",    user |-> "U2",   channel |-> Absent],
       [id |-> "r5", type |-> "channel", user |-> Absent, channel |-> "C2"] >>

Pos(item) == CHOOSE i \in 1..Len(RawList) : RawList[i] = item

LastPos(raw) == IF raw = <<>> THEN 0 ELSE Pos(raw[Len(raw)])

Ascending(S) ==
    CHOOSE q \in [1..Cardinality(S) -> S] :
        \A i, j \in 1..Cardinality(S) : i < j => q[i] < q[j]

\* The pages a response may hold: up to n items further down the list than
\* the ones already served, in list order.
PageChoices(raw, n) ==
    { [i \in 1..Cardinality(S) |-> RawList[Ascending(S)[i]]] :
        S \in { T \in SUBSET ((LastPos(raw) + 1)..Len(RawList)) : Cardinality(T) <= n } }

\* What users_info and conversations_info answer for an id.
UserDirectory(id) ==
    CASE id = "U1" -> [display_name |-> "Dee", real_name |-> "Dee Real", name |-> "dee"]
      [] id = "U2" -> [display_name |-> "",    real_name |-> "",         name |-> "u2"]
      [] OTHER     -> [display_name |-> "",    real_name |-> "",         name |-> ""]

ChannelDirectory(id) ==
    CASE id = "C1" -> [name |-> "general"]
      [] OTHER     -> [name |-> ""]

\* user.get('real_name') or user.get('name') or user_id
user_name(id) ==
    LET user == UserDirectory(id)
    IN  IF user.real_name # "" THEN <<user.real_name>>
        ELSE IF user.name # "" THEN <<user.name>>
        ELSE <<id>>

\* f"#{channel.get('name', channel_id)}"
channel_name(id) ==
    LET channel == ChannelDirectory(id)
    IN  IF channel.name # "" THEN <<"#", channel.name>> ELSE <<"#", id>>

GetOr(v, default) == IF v = Absent THEN default ELSE v

Put(cache, id, name) ==
    [x \in DOMAIN cache \cup {id} |-> IF x = id THEN name ELSE cache[x]]

Mutant_CacheHit(cache, id) == FALSE

CacheHit(cache, id) == id \in DOMAIN cache

Mutant_cursor_after(response) == IF response.next_cursor = "" THEN "" ELSE "c1"

cursor_after(response) == response.next_cursor

\* The ids the batch pass collects from raw_items: truthy values only.
BatchUserIds(raw) ==
    { raw[i].user : i \in { j \in 1..Len(raw) :
        raw[j].type \in {"message", "file"} /\ raw[j].user # Absent } }

BatchChannelIds(raw) ==
    { raw[i].channel : i \in { j \in 1..Len(raw) :
        raw[j].type = "message" /\ raw[j].channel # Absent } }

AfterPaging(batch, raw) ==
    IF batch /\ raw # <<>>
    THEN IF BatchUserIds(raw) # {} THEN "batch_users"
         ELSE IF BatchChannelIds(raw) # {} THEN "batch_channels"
         ELSE "processing"
    ELSE "processing"

\* A fresh SlackToOmniFocus at the entry of fetch_saved_items.
FetchStart ==
    /\ max_retries \in FetchRetries
    /\ kwargs = "none" /\ attempt = 0
    /\ api_calls = <<>> /\ sleeps = <<>> /\ outcomes = <<>>
    /\ retry_pc = "idle" /\ retry_result = "none"
    /\ batch_fetch \in BOOLEAN
    /\ fetch_pc = "paging" /\ cursor = "None"
    /\ stars_list_calls = <<>> /\ pages = <<>> /\ raw_items = <<>>
    /\ user_ids = {} /\ channel_ids = {}
    /\ user_cache = NoCache /\ channel_cache = NoCache
    /\ users_info_calls = <<>> /\ conversations_info_calls = <<>>
    /\ proc_i = 0 /\ fetch_out = <<>> /\ fetch_error = "none"

InitFetch ==
    /\ FetchStart
    /\ EscIdle /\ SyncIdle /\ RootIdle /\ MainIdle /\ TextIdle

\* The outer `except SlackApiError: return []`; a ValueError is not caught.
FetchRaises(out) ==
    /\ out # "ok"
    /\ fetch_error' = out
    /\ fetch_pc' = IF out = "SlackApiError" THEN "returned" ELSE "crashed"
    /\ fetch_out' = IF out = "SlackApiError" THEN <<>> ELSE fetch_out

\* One turn of the `while True` loop: request a page, extend raw_items, take
\* the next cursor, leave the loop when it is falsy.
FetchPage ==
    /\ fetch_pc = "paging"
    /\ Len(stars_list_calls) < MaxPages
    /\ stars_list_calls' = IF MakesCall(max_retries) THEN Append(stars_list_calls, cursor)
                           ELSE stars_list_calls
    /\ \E out \in WrappedEndings(max_retries) :
          \/ /\ out = "ok"
             /\ \E its \in PageChoices(raw_items, MaxRaw - Len(raw_items)),
                   nxt \in NextCursors :
                   LET response == [items |-> its, next_cursor |-> nxt]
                   IN  /\ pages' = Append(pages, response)
                       /\ raw_items' = raw_items \o its
                       /\ cursor' = cursor_after(response)
                       /\ IF cursor' # ""
                          THEN UNCHANGED <<fetch_pc, user_ids, channel_ids, proc_i>>
                          ELSE /\ fetch_pc' = AfterPaging(batch_fetch, raw_items')
                               /\ user_ids' = IF batch_fetch THEN BatchUserIds(raw_items') ELSE {}
                               /\ channel_ids' = IF batch_fetch THEN BatchChannelIds(raw_items') ELSE {}
                               /\ proc_i' = 1
             /\ UNCHANGED <<fetch_out, fetch_error>>
          \/ /\ FetchRaises(out)
             /\ UNCHANGED <<pages, raw_items, cursor, user_ids, channel_ids, proc_i>>
    /\ UNCHANGED <<batch_fetch, user_cache, channel_cache, users_info_calls,
                   conversations_info_calls, escVars, retryVars, syncVars, rootVars, mainVars, textVars>>

Call(id, out, phase) == [id |-> id, ok |-> (out = "ok"), phase |-> phase]

\* A slip that would go back to the paging loop after the users' batch pass.
Mutant_AfterBatchUsers(todo, channels) ==
    IF todo # {} THEN "batch_users" ELSE "paging"

AfterBatchUsers(todo, channels) ==
    IF todo # {} THEN "batch_users"
    ELSE IF channels # {} THEN "batch_channels" ELSE "processing"

\* One turn of the loop of _batch_fetch_users.  A SlackApiError caches the id
\* itself; a ValueError leaves fetch_saved_items uncaught.
BatchFetchUser ==
    /\ fetch_pc = "batch_users"
    /\ \E id \in user_ids :
          /\ user_ids' = user_ids \ {id}
          /\ IF CacheHit(user_cache, id) \/ id = "unknown"
             THEN /\ fetch_pc' = AfterBatchUsers(user_ids', channel_ids)
                  /\ UNCHANGED <<user_cache, users_info_calls, fetch_error>>
             ELSE \E out \in WrappedEndings(max_retries) :
                     /\ users_info_calls' =
                            IF MakesCall(max_retries)
                            THEN Append(users_info_calls, Call(id, out, "batch"))
                            ELSE users_info_calls
                     /\ user_cache' = CASE out = "ok" -> Put(user_cache, id, user_name(id))
                                        [] out = "SlackApiError" -> Put(user_cache, id, <<id>>)
                                        [] OTHER -> user_cache
                     /\ fetch_pc' = IF out = "ValueError" THEN "crashed"
                                    ELSE AfterBatchUsers(user_ids', channel_ids)
                     /\ fetch_error' = IF out = "ValueError" THEN out ELSE fetch_error
    /\ UNCHANGED <<batch_fetch, cursor, stars_list_calls, pages, raw_items, channel_ids,
                   channel_cache, conversations_info_calls, proc_i, fetch_out,
                   escVars, retryVars, syncVars, rootVars, mainVars, textVars>>

\* One turn of the loop of _batch_fetch_channels.
BatchFetchChannel ==
    /\ fetch_pc = "batch_channels"
    /\ \E id \in channel_ids :
          /\ channel_ids' = channel_ids \ {id}
          /\ IF CacheHit(channel_cache, id) \/ id = "unknown"
             THEN /\ fetch_pc' = IF channel_ids' # {} THEN "batch_channels" ELSE "processing"
                  /\ UNCHANGED <<channel_cache, conversations_info_calls, fetch_error>>
             ELSE \E out \in WrappedEndings(max_retries) :
                     /\ conversations_info_calls' =
                            IF MakesCall(max_retries)
                            THEN Append(conversations_info_calls, Call(id, out, "batch"))
                            ELSE conversations_info_calls
                     /\ channel_cache' = CASE out = "ok" -> Put(channel_cache, id, channel_name(id))
                                           [] out = "SlackApiError" -> Put(channel_cache, id, <<id>>)
                                           [] OTHER -> channel_cache
                     /\ fetch_pc' = IF out = "ValueError" THEN "crashed"
                                    ELSE IF channel_ids' # {} THEN "batch_channels"
                                    ELSE "processing"
                     /\ fetch_error' = IF out = "ValueError" THEN out ELSE fetch_error
    /\ UNCHANGED <<batch_fetch, cursor, stars_list_calls, pages, raw_items, user_ids,
                   user_cache, users_info_calls, proc_i, fetch_out,
                   escVars, retryVars, syncVars, rootVars, mainVars, textVars>>

\* _get_user_name and _get_channel_name: answer from the cache, else look the
\* id up; a success is cached, a SlackApiError answers the id and caches nothing.
Lookup(cache, id, out, resolved) ==
    IF CacheHit(cache, id)
    THEN [called |-> FALSE, crash |-> FALSE, name |-> cache[id], cache |-> cache]
    ELSE CASE out = "ok" ->
                [called |-> TRUE, crash |-> FALSE, name |-> resolved,
                 cache |-> Put(cache, id, resolved)]
           [] out = "SlackApiError" ->
                [called |-> MakesCall(max_retries), crash |-> FALSE, name |-> <<id>>,
                 cache |-> cache]
           [] OTHER ->
                [called |-> TRUE, crash |-> TRUE, name |-> <<>>, cache |-> cache]

_get_user_name(cache, user_id, out) == Lookup(cache, user_id, out, user_name(user_id))

_get_channel_name(cache, channel_id, out) ==
    Lookup(cache, channel_id, out, channel_name(channel_id))

\* One turn of the processing loop: a message resolves its user and then its
\* channel, a file only its user, any other type is passed over.
ProcessItem ==
    /\ fetch_pc = "processing"
    /\ proc_i \in 1..Len(raw_items)
    /\ LET item == raw_items[proc_i]
           uid  == GetOr(item.user, "unknown")
           cid  == GetOr(item.channel, "unknown")
       IN  IF item.type \notin {"message", "file"}
           THEN /\ proc_i' = proc_i + 1
                /\ UNCHANGED <<fetch_pc, user_cache, channel_cache, users_info_calls,
                               conversations_info_calls, fetch_out, fetch_error>>
           ELSE \E uo, co \in WrappedEndings(max_retries) :
                  LET u == _get_user_name(user_cache, uid, uo)
                      wantsChannel == item.type = "message" /\ ~u.crash
                      c == IF wantsChannel
                           THEN _get_channel_name(channel_cache, cid, co)
                           ELSE [called |-> FALSE, crash |-> FALSE, name |-> <<>>,
                                 cache |-> channel_cache]
                      crash == u.crash \/ c.crash
                  IN  /\ users_info_calls' =
                            IF u.called THEN Append(users_info_calls, Call(uid, uo, "processing"))
                            ELSE users_info_calls
                      /\ user_cache' = u.cache
                      /\ conversations_info_calls' =
                            IF c.called
                            THEN Append(conversations_info_calls, Call(cid, co, "processing"))
                            ELSE conversations_info_calls
                      /\ channel_cache' = c.cache
                      /\ fetch_pc' = IF crash THEN "crashed" ELSE fetch_pc
                      /\ fetch_error' = IF crash THEN "ValueError" ELSE fetch_error
                      /\ proc_i' = IF crash THEN proc_i ELSE proc_i + 1
                      /\ fetch_out' =
                            IF crash THEN fetch_out
                            ELSE Append(fetch_out, [id |-> item.id, type |-> item.type,
                                                    user |-> u.name, channel |-> c.name])
    /\ UNCHANGED <<batch_fetch, cursor, stars_list_calls, pages, raw_items, user_ids,
                   channel_ids, escVars, retryVars, syncVars, rootVars, mainVars, textVars>>

\* `return saved_items` after the processing loop.
FetchReturns ==
    /\ fetch_pc = "processing"
    /\ proc_i > Len(raw_items)
    /\ fetch_pc' = "returned"
    /\ UNCHANGED <<batch_fetch, cursor, stars_list_calls, pages, raw_items, user_ids,
                   channel_ids, user_cache, channel_cache, users_info_calls,
                   conversations_info_calls, proc_i, fetch_out, fetch_error,
                   escVars, retryVars, syncVars, rootVars, mainVars, textVars>>

NextFetch == FetchPage \/ BatchFetchUser \/ BatchFetchChannel \/ ProcessItem \/ FetchReturns

SpecFetch == InitFetch /\ [][NextFetch]_vars

RECURSIVE PageItems(_)
PageItems(ps) == IF ps = <<>> THEN <<>> ELSE Head(ps).items \o PageItems(Tail(ps))

Ids(q) == [i \in 1..Len(q) |-> q[i].id]

OnlyMessagesAndFiles(q) == \A i \in 1..Len(q) : q[i].type \in {"message", "file"}

\* C12: stars_list is first called without a cursor and then with the cursor
\* of the page before, once per page; when fetch_saved_items returns after a
\* chain of pages of messages and files that ends in a page without cursor,
\* it made one call per page and returns the items of all pages in order,
\* empty pages included.
C12_PagesInOrder ==
    /\ Len(stars_list_calls) >= 1 => stars_list_calls[1] = "None"
    /\ \A i \in 1..(Len(stars_list_calls) - 1) :
          /\ i <= Len(pages)
          /\ pages[i].next_cursor # ""
          /\ stars_list_calls[i + 1] = pages[i].next_cursor
    /\ (fetch_pc = "returned" /\ fetch_error = "none") =>
          /\ Len(pages) >= 1
          /\ Len(stars_list_calls) = Len(pages)
          /\ pages[Len(pages)].next_cursor = ""
          /\ OnlyMessagesAndFiles(PageItems(pages)) =>
                Ids(fetch_out) = Ids(PageItems(pages))

C12_Witness ==
    /\ fetch_pc = "returned" /\ fetch_error = "none"
    /\ Len(pages) = 3
    /\ Len(pages[1].items) = 1 /\ pages[2].items = <<>> /\ Len(pages[3].items) = 1
    /\ pages[1].next_cursor # pages[2].next_cursor
    /\ Ids(fetch_out) = <<"r1", "r4">>

\* C13: when the request for a page after the first fails with a
\* SlackApiError, fetch_saved_items returns the messages and files of the
\* pages it already holds.
C13_PartialResultsKept ==
    (fetch_pc = "returned" /\ fetch_error = "SlackApiError" /\ Len(stars_list_calls) >= 2) =>
        Len(fetch_out) = Len(SelectSeq(PageItems(pages),
                                       LAMBDA it : it.type \in {"message", "file"}))

\* C14: no two stars_list requests of one run carry the same cursor.
C14_NoPageTwice ==
    \A i, j \in 1..Len(stars_list_calls) :
        i # j => stars_list_calls[i] # stars_list_calls[j]


\* No lookup of an id follows a successful lookup of the same id.
NoCallAfterSuccess(calls) ==
    \A i, j \in 1..Len(calls) :
        (i < j /\ calls[i].ok) => calls[j].id # calls[i].id

NoCallAfterFailure(calls) ==
    \A i, j \in 1..Len(calls) :
        (i < j /\ ~calls[i].ok) => calls[j].id # calls[i].id

\* C16: a lookup that fails with a SlackApiError leaves the raw id in the
\* cache, so the run never asks for that id again.
C16_FailureCached ==
    /\ NoCallAfterFailure(users_info_calls)
    /\ NoCallAfterFailure(conversations_info_calls)

\* C17: with batch fetching on, the processing loop makes no users_info and
\* no conversations_info request.
C17_NoLookupWhileProcessing ==
    batch_fetch =>
        /\ \A i \in 1..Len(users_info_calls) : users_info_calls[i].phase # "processing"
        /\ \A i \in 1..Len(conversations_info_calls) :
              conversations_info_calls[i].phase # "processing"

\* The priority order display name, full name, short handle, id.
DisplayNameFirst(id) ==
    LET user == UserDirectory(id)
    IN  IF user.display_name # "" THEN <<user.display_name>>
        ELSE IF user.real_name # "" THEN <<user.real_name>>
        ELSE IF user.name # "" THEN <<user.name>>
        ELSE <<id>>

\* C18: the name cached after a successful users_info lookup is the first
\* non-empty of display name, full name, short handle and id.
C18_DisplayNamePreferred ==
    \A i \in 1..Len(users_info_calls) :
        users_info_calls[i].ok =>
            user_cache[users_info_calls[i].id] = DisplayNameFirst(users_info_calls[i].id)


FailedLaunches == { j \in 1..Len(osascript_calls) : ~osascript_calls[j].ok }

\* C19: add_to_omnifocus answers False for every osascript call that did not
\* succeed and raises nothing: sync goes on and counts one failed item for
\* each of them.
C19_AddNeverRaises ==
    /\ sync_pc # "crashed"
    /\ fail_count = Cardinality(FailedLaunches)

\* C20: when sync has returned, every item of the starred list, whatever
\* its type, has had one osascript attempt, in the order of the list.
C20_EveryItemAttempted ==
    (sync_pc = "done" /\ ~later_run /\ saved_items # <<>> /\ ~remove_after_import) =>
        /\ Len(osascript_calls) = Len(slack_stars)
        /\ \A j \in 1..Len(osascript_calls) :
              osascript_calls[j].key = _get_item_key(slack_stars[j])


(***************************************************************************)
(* Further properties of the escaper, checked under SpecEscape.            *)
(***************************************************************************)
\* What one character of the input must have become in the output.
CharImage(c) ==
    CASE c = LF  -> <<BS, "n">>
      [] c = CR  -> <<BS, "r">>
      [] c = TAB -> <<BS, "t">>
      [] c \in {BS, DQ, BT, DL} -> <<BS, c>>
      [] OTHER   -> <<c>>

RECURSIVE Image(_)
Image(s) == IF s = <<>> THEN <<>> ELSE CharImage(Head(s)) \o Image(Tail(s))

NoRawLineBreak(s) == \A i \in 1..Len(s) : s[i] \notin {LF, CR}

C28_FileRemovedById ==
    \A r \in 1..Len(root_remove_calls) : root_remove_calls[r].args.file # "None"

RateLimitedSeen == { i \in 1..Len(outcomes) : outcomes[i].kind = "rate_limited" }

\* C29: _api_call_with_retry has slept once for every rate-limited failure
\* it has observed, the last attempt included: the exceeded error is raised
\* after max_retries sleeps.
C29_SleepPerRateLimit ==
    /\ Len(sleeps) = Cardinality(RateLimitedSeen)
    /\ retry_pc = "exceeded" => Len(sleeps) = max_retries


(***************************************************************************)
(* SpecMain: main() of the integration.  With --dry-run it fetches and     *)
(* lists; otherwise it calls sync, whose steps are those of SpecSync.  The *)
(* local `items` of the dry-run branch is held in saved_items and its loop *)
(* position in sync_i.                                                     *)
(***************************************************************************)
Mutant_RunsSync(dry) == TRUE

\* if args.dry_run: ... else: sync_tool.sync(...)
RunsSync(dry) == ~dry

\* What fetch_saved_items does for main: it returns the processed items, it
\* returns [] after a SlackApiError, or it raises.
FetchEndings == {"items", "empty", "raises"}

InitMain ==
    /\ dry_run \in BOOLEAN
    /\ main_pc = "start"
    /\ dry_formatted = <<>>
    /\ slack_stars \in StarLists(MaxItems)
    /\ remove_after_import \in BOOLEAN
    /\ imported_items = {} /\ later_run = FALSE /\ created_before = {}
    /\ saved_items = <<>> /\ sync_i = 0
    /\ osascript_calls = <<>> /\ stars_remove_calls = <<>>
    /\ success_count = 0 /\ fail_count = 0 /\ sync_pc = "off"
    /\ EscIdle /\ RetryIdle /\ RootIdle /\ FetchIdle /\ TextIdle

\* items = sync_tool.fetch_saved_items() of the dry-run branch; an exception
\* reaches `except Exception` and main exits with status 1.
MainDryRunFetch ==
    /\ main_pc = "start" /\ ~RunsSync(dry_run)
    /\ \E ending \in FetchEndings :
          /\ saved_items' = IF ending = "items" THEN Processed(slack_stars) ELSE <<>>
          /\ main_pc' = IF ending = "raises" THEN "exit1" ELSE "listing"
    /\ sync_i' = 1
    /\ UNCHANGED <<dry_run, dry_formatted, slack_stars, imported_items,
                   remove_after_import, later_run, created_before, osascript_calls,
                   stars_remove_calls, success_count, fail_count, sync_pc,
                   escVars, retryVars, rootVars, fetchVars, textVars>>

\* One round of the listing loop: format_task and two log lines.
MainDryRunFormat ==
    /\ main_pc = "listing" /\ sync_i <= Len(saved_items)
    /\ dry_formatted' = Append(dry_formatted, saved_items[sync_i].id)
    /\ sync_i' = sync_i + 1
    /\ UNCHANGED <<dry_run, main_pc, slack_stars, imported_items, remove_after_import,
                   later_run, created_before, saved_items, osascript_calls,
                   stars_remove_calls, success_count, fail_count, sync_pc,
                   escVars, retryVars, rootVars, fetchVars, textVars>>

MainDryRunDone ==
    /\ main_pc = "listing" /\ sync_i > Len(saved_items)
    /\ main_pc' = "exit0"
    /\ UNCHANGED <<dry_run, dry_formatted, syncVars,
                   escVars, retryVars, rootVars, fetchVars, textVars>>

\* sync_tool.sync(remove_after_import=args.remove_after_import)
MainCallsSync ==
    /\ main_pc = "start" /\ RunsSync(dry_run)
    /\ main_pc' = "in_sync"
    /\ sync_pc' = "idle"
    /\ UNCHANGED <<dry_run, dry_formatted, slack_stars, imported_items,
                   remove_after_import, later_run, created_before, saved_items, sync_i,
                   osascript_calls, stars_remove_calls, success_count, fail_count,
                   escVars, retryVars, rootVars, fetchVars, textVars>>

\* sync has returned, or an exception of it has reached `except Exception`.
MainSyncEnded ==
    /\ main_pc = "in_sync" /\ sync_pc \in {"done", "crashed"}
    /\ main_pc' = IF sync_pc = "done" THEN "exit0" ELSE "exit1"
    /\ UNCHANGED <<dry_run, dry_formatted, syncVars,
                   escVars, retryVars, rootVars, fetchVars, textVars>>

NextMain ==
    \/ MainDryRunFetch \/ MainDryRunFormat \/ MainDryRunDone
    \/ MainCallsSync \/ FetchSavedItems \/ ImportItem \/ SyncReturns \/ MainSyncEnded

SpecMain == InitMain /\ [][NextMain]_vars

IsPrefix(p, q) == Len(p) <= Len(q) /\ SubSeq(q, 1, Len(p)) = p

StarIds(q) == [i \in 1..Len(q) |-> q[i].id]

\* C21: with --dry-run, also together with --remove-after-import, main
\* launches no osascript, calls no stars_remove and never enters sync; it
\* formats the fetched items once each, in order.
C21_DryRunTouchesNothing ==
    dry_run =>
        /\ osascript_calls = <<>>
        /\ stars_remove_calls = <<>>
        /\ sync_pc = "off"
        /\ success_count = 0 /\ fail_count = 0
        /\ IsPrefix(dry_formatted, StarIds(saved_items))
        /\ main_pc = "exit0" => dry_formatted = StarIds(saved_items)

C21_Witness ==
    /\ dry_run /\ remove_after_import
    /\ main_pc = "exit0"
    /\ Len(dry_formatted) = 2


(***************************************************************************)
(* SpecText: one item text, and what format_task (integration) and         *)
(* _create_title (root script) make of it.  The texts reach past the 100   *)
(* characters a title keeps.  SpecEscapeCall: the escaper called directly  *)
(* with a text or with None.                                               *)
(***************************************************************************)
TitleLimit == 100

RootTitleLimit == 100

\* Python's None where a text is expected; str(None) is the text "None".
None == <<"None">>

Rep(c, n) == [i \in 1..n |-> c]

Whitespace == {" ", LF, CR, TAB}

\* Surrounding whitespace, a first line of "a", a line break or not, a rest
\* of "b".
Texts ==
    { lead \o Rep("a", n) \o mid \o Rep("b", m) \o trail :
        lead \in {<<>>, <<" ">>, <<LF>>},
        n \in {0, 1, TitleLimit - 1, TitleLimit, TitleLimit + 1},
        mid \in {<<>>, <<LF>>, <<CR>>},
        m \in {0, 1, TitleLimit + 1},
        trail \in {<<>>, <<" ">>, <<LF>>} }

\* str.strip(): what lies between the first and the last character that is
\* no whitespace.
strip(s) ==
    LET keep == {k \in 1..Len(s) : s[k] \notin Whitespace}
    IN  IF keep = {} THEN <<>>
        ELSE SubSeq(s, CHOOSE k \in keep : \A j \in keep : k <= j,
                       CHOOSE k \in keep : \A j \in keep : k >= j)

\* s.split('\n')[0]
FirstLine(s) ==
    LET breaks == {k \in 1..Len(s) : s[k] = LF}
    IN  IF breaks = {} THEN s
        ELSE SubSeq(s, 1, (CHOOSE k \in breaks : \A j \in breaks : k <= j) - 1)

\* s[:n]
Take(s, n) == SubSeq(s, 1, IF Len(s) < n THEN Len(s) ELSE n)

\* SlackToOmniFocus.format_task; user, channel and url are fixed texts.
format_task(type, text, link) ==
    IF type = "message"
    THEN LET stripped   == strip(text)
             first_line == Take(FirstLine(stripped), TitleLimit)
         IN  [task_name |-> <<"Slack: ">> \o first_line,
              note |-> <<"From: Dee", LF, "Channel: #general", LF, LF>> \o stripped
                       \o (IF link # <<>> THEN <<LF, LF, "Link: ">> \o link ELSE <<>>)]
    ELSE IF type = "file"
    THEN [task_name |-> <<"Slack File: ">> \o text,
          note |-> <<"Shared by: Dee", LF, "URL: https://files/F1">>]
    ELSE [task_name |-> <<"Slack Item: ", type>>, note |-> <<"str(item)">>]

\* _create_title of the root script.
_create_title(type, text) ==
    LET stripped == strip(text)
        t == IF \E k \in 1..Len(stripped) : stripped[k] = LF
             THEN FirstLine(stripped)
             ELSE Take(stripped, RootTitleLimit)
    IN  IF type = "file" THEN <<"[Slack File] ">> \o t
        ELSE IF t # <<>> THEN <<"[Slack] ">> \o t
        ELSE <<"[Slack] Saved Message">>

InitText ==
    /\ item_text \in Texts \cup {None}
    /\ item_type \in {"message", "file", "channel"}
    /\ permalink \in {<<>>, <<"https://slack/p1">>}
    /\ task_name = <<>> /\ task_note = <<>> /\ root_title = <<>> /\ escaped = <<>>
    /\ text_pc = "input"
    /\ EscIdle /\ RetryIdle /\ SyncIdle /\ RootIdle /\ FetchIdle /\ MainIdle

\* format_task(item); item['text'].strip() of a message raises AttributeError
\* when the text is None.
FormatTask ==
    /\ text_pc = "input"
    /\ IF item_type = "message" /\ item_text = None
       THEN /\ text_pc' = "format_raised"
            /\ UNCHANGED <<task_name, task_note>>
       ELSE /\ text_pc' = "formatted"
            /\ task_name' = format_task(item_type, item_text, permalink).task_name
            /\ task_note' = format_task(item_type, item_text, permalink).note
    /\ UNCHANGED <<item_text, item_type, permalink, root_title, escaped,
                   escVars, retryVars, syncVars, rootVars, fetchVars, mainVars>>

\* _create_title(item) of the root script; item.get("text", "").strip() raises
\* AttributeError when the text is None.
CreateTitle ==
    /\ text_pc = "input"
    /\ IF item_text = None
       THEN /\ text_pc' = "title_raised"
            /\ UNCHANGED root_title
       ELSE /\ text_pc' = "titled"
            /\ root_title' = _create_title(item_type, item_text)
    /\ UNCHANGED <<item_text, item_type, permalink, task_name, task_note, escaped,
                   escVars, retryVars, syncVars, rootVars, fetchVars, mainVars>>

\* _escape_applescript_string(item_text) called directly; s.replace of None
\* raises AttributeError.
EscapeCall ==
    /\ text_pc = "input"
    /\ IF item_text = None
       THEN /\ text_pc' = "escape_raised"
            /\ UNCHANGED escaped
       ELSE /\ text_pc' = "escaped"
            /\ escaped' = _escape_applescript_string(item_text)
    /\ UNCHANGED <<item_text, item_type, permalink, task_name, task_note, root_title,
                   escVars, retryVars, syncVars, rootVars, fetchVars, mainVars>>

NextText == FormatTask \/ CreateTitle

SpecText == InitText /\ [][NextText]_vars

InitEscapeCall ==
    /\ item_text \in Str(MaxLen) \cup {None}
    /\ item_type = "none" /\ permalink = <<>>
    /\ task_name = <<>> /\ task_note = <<>> /\ root_title = <<>> /\ escaped = <<>>
    /\ text_pc = "input"
    /\ EscIdle /\ RetryIdle /\ SyncIdle /\ RootIdle /\ FetchIdle /\ MainIdle

NextEscapeCall == EscapeCall

SpecEscapeCall == InitEscapeCall /\ [][NextEscapeCall]_vars

Contains(s, sub) ==
    \E k \in 0..(Len(s) - Len(sub)) : SubSeq(s, k + 1, k + Len(sub)) = sub

\* C22: for a message, the task name is 'Slack: ' followed by at most the
\* first 100 characters of the first line of the text, without a line feed,
\* and the note holds the whole text as it was given.
C22_TitleCutNoteWhole ==
    (text_pc = "formatted" /\ item_type = "message") =>
        /\ Head(task_name) = "Slack: "
        /\ Len(Tail(task_name)) <= TitleLimit
        /\ \A k \in 1..Len(task_name) : task_name[k] # LF
        /\ Tail(task_name) = Take(FirstLine(item_text), TitleLimit)
        /\ Contains(task_note, item_text)

\* C24: the escaper called with None or with the empty text answers the
\* empty text and raises nothing.
C24_EscaperTotal ==
    (item_text \in {None, <<>>} /\ text_pc \in {"escaped", "escape_raised"}) =>
        /\ text_pc = "escaped"
        /\ escaped = <<>>

\* C27: the text part of the root script's title is the first line of the
\* stripped text cut to at most 100 characters, for one line and for several.
C27_RootTitleCut ==
    (text_pc = "titled" /\ strip(item_text) # <<>>) =>
        /\ Len(Tail(root_title)) <= RootTitleLimit
        /\ Tail(root_title) = Take(FirstLine(strip(item_text)), RootTitleLimit)


\* With no turn of the retry loop a resolver answers the raw id, asks nothing
\* and caches nothing.
FallsBackUnasked(r, cache, id) ==
    ~r.called /\ ~r.crash /\ r.name = <<id>> /\ r.cache = cache

\* C30: with max_api_retries 0 or negative the wrapped call raises without
\* invoking api_func: fetch_saved_items makes no stars_list call and returns
\* the empty list, and a name resolution answers the raw id with no
\* users_info or conversations_info call.
C30_ZeroRetriesNoCall ==
    max_retries <= 0 =>
        /\ stars_list_calls = <<>>
        /\ users_info_calls = <<>> /\ conversations_info_calls = <<>>
        /\ fetch_pc \in {"paging", "returned"}
        /\ fetch_pc = "returned" => (fetch_out = <<>> /\ fetch_error = "SlackApiError")
        /\ \A out \in WrappedEndings(max_retries) :
              /\ \A id \in {"U1", "U2", "unknown"} :
                    FallsBackUnasked(_get_user_name(user_cache, id, out), user_cache, id)
              /\ \A id \in {"C1", "C2", "unknown"} :
                    FallsBackUnasked(_get_channel_name(channel_cache, id, out),
                                     channel_cache, id)

C30_Witness ==
    /\ max_retries = 0
    /\ fetch_pc = "returned"
    /\ stars_list_calls = <<>> /\ fetch_out = <<>>


(***************************************************************************)
(* SpecRun: one call of sync on a fresh instance.  fetch_saved_items runs  *)
(* as in SpecFetch; when it has ended, sync goes through the items it      *)
(* returned.  Here osascript_calls and stars_remove_calls name an item by  *)
(* its id, and a stars_remove call is logged with what Slack answered.     *)
(***************************************************************************)
\* What the one stars_remove request of remove_saved_item can do.
RemoveOutcomes == {"ok", "rate_limited", "other_error"}

InitRun ==
    /\ FetchStart
    /\ remove_after_import \in BOOLEAN
    /\ slack_stars = <<>> /\ imported_items = {}
    /\ later_run = FALSE /\ created_before = {} /\ saved_items = <<>>
    /\ sync_i = 0 /\ osascript_calls = <<>> /\ stars_remove_calls = <<>>
    /\ success_count = 0 /\ fail_count = 0 /\ sync_pc = "idle"
    /\ EscIdle /\ RootIdle /\ MainIdle /\ TextIdle

\* saved_items = self.fetch_saved_items(); if not saved_items: return.
\* An exception of fetch_saved_items leaves sync at once.  The locals of
\* fetch_saved_items end with the call; the caches and the requests made
\* remain.
RunFetchEnded ==
    /\ sync_pc = "idle" /\ fetch_pc \in {"returned", "crashed"}
    /\ IF fetch_pc = "crashed"
       THEN /\ sync_pc' = "crashed"
            /\ UNCHANGED <<saved_items, sync_i>>
       ELSE /\ saved_items' = fetch_out
            /\ sync_i' = 1
            /\ sync_pc' = IF fetch_out = <<>> THEN "done" ELSE "importing"
    /\ cursor' = "None" /\ pages' = <<>> /\ raw_items' = <<>>
    /\ user_ids' = {} /\ channel_ids' = {} /\ proc_i' = 0 /\ fetch_out' = <<>>
    /\ UNCHANGED <<slack_stars, imported_items, remove_after_import, later_run,
                   created_before, osascript_calls, stars_remove_calls, success_count,
                   fail_count, batch_fetch, fetch_pc, stars_list_calls, user_cache,
                   channel_cache, users_info_calls, conversations_info_calls, fetch_error,
                   escVars, retryVars, rootVars, mainVars, textVars>>

\* One round of the loop of sync: format_task, add_to_omnifocus and, after a
\* success with remove_after_import, remove_saved_item, which calls
\* self.client.stars_remove once and answers False on a SlackApiError.
RunImportItem ==
    /\ sync_pc = "importing" /\ sync_i <= Len(saved_items)
    /\ LET item == saved_items[sync_i] IN
       \E add \in AddOutcomes, rem \in RemoveOutcomes :
        /\ osascript_calls' = Append(osascript_calls, [key |-> <<item.id>>, ok |-> add = "ok"])
        /\ IF add = "launch_failure"
           THEN /\ sync_pc' = "crashed"
                /\ UNCHANGED <<sync_i, success_count, fail_count, stars_remove_calls>>
           ELSE /\ sync_pc' = sync_pc
                /\ sync_i' = sync_i + 1
                /\ success_count' = IF add = "ok" THEN success_count + 1 ELSE success_count
                /\ fail_count' = IF add = "ok" THEN fail_count ELSE fail_count + 1
                /\ stars_remove_calls' =
                       IF ShouldRemove(add = "ok")
                       THEN Append(stars_remove_calls, [id |-> item.id, outcome |-> rem])
                       ELSE stars_remove_calls
    /\ UNCHANGED <<slack_stars, imported_items, remove_after_import, later_run,
                   created_before, saved_items, escVars, retryVars, rootVars, fetchVars,
                   mainVars, textVars>>

NextRun ==
    \/ FetchPage \/ BatchFetchUser \/ BatchFetchChannel \/ ProcessItem \/ FetchReturns
    \/ RunFetchEnded \/ RunImportItem \/ SyncReturns

SpecRun == InitRun /\ [][NextRun]_vars


FetchingPhases == {"paging", "batch_users", "batch_channels"}

\* In a lookup log the batch pass comes first and asks for no id twice.
BatchFirstAndOnce(calls) ==
    \A i, j \in 1..Len(calls) :
        i < j => /\ ~(calls[i].phase = "processing" /\ calls[j].phase = "batch")
                 /\ (calls[i].phase = "batch" /\ calls[j].phase = "batch")
                        => calls[i].id # calls[j].id

\* C25: a run goes forward only.  No stars_list request follows a users_info
\* or conversations_info request; no request of the three follows the first
\* osascript launch; the paging loop and the batch pass, once left, are not
\* entered again, and the batch pass visits an id once.
C25_StrictPhases ==
    /\ [](BatchFirstAndOnce(users_info_calls) /\ BatchFirstAndOnce(conversations_info_calls))
    /\ [][(users_info_calls # <<>> \/ conversations_info_calls # <<>>)
              => stars_list_calls' = stars_list_calls]_vars
    /\ [][osascript_calls' # <<>>
              => UNCHANGED <<stars_list_calls, users_info_calls,
                             conversations_info_calls>>]_vars
    /\ [][fetch_pc # "paging" => fetch_pc' # "paging"]_vars
    /\ [][fetch_pc \notin FetchingPhases => fetch_pc' \notin FetchingPhases]_vars
    /\ [][fetch_pc = "batch_channels" => fetch_pc' # "batch_users"]_vars

C25_Witness ==
    /\ sync_pc = "done" /\ batch_fetch
    /\ Len(stars_list_calls) >= 2
    /\ users_info_calls # <<>> /\ conversations_info_calls # <<>>
    /\ Len(osascript_calls) = 2

\* C26: a stars_remove request that was answered rate_limited is made again
\* for the same item before sync is over (max_api_retries allowing a second
\* attempt).
C26_RemovalRetried ==
    (sync_pc = "done" /\ max_retries >= 2) =>
        \A i \in 1..Len(stars_remove_calls) :
            stars_remove_calls[i].outcome = "rate_limited" =>
                \E j \in (i + 1)..Len(stars_remove_calls) :
                    stars_remove_calls[j].id = stars_remove_calls[i].id

=============================================================================
